---- MODULE Spec2Model ----
(***************************************************************************)
(* Scheduled-publish pipeline of insta_automate: the Bull queue filled by  *)
(* SchedulerService, the publish worker (setupPublishWorker), the posts    *)
(* service operations that create, edit and retry posts, and the           *)
(* credential refresh of preparePostForPublishing.                         *)
(*                                                                         *)
(* The job handler is modelled one await at a time: every action of a      *)
(* worker is the code between two awaits of publish.worker.ts, so that     *)
(* the requests of the API (createScheduledPost, updatePost, retryPost)    *)
(* interleave with it exactly where the event loop lets them.              *)
(***************************************************************************)
EXTENDS Integers, Sequences, FiniteSets, TLC

\* ---------------------------------------------------------------- bounds
\* the most media assets a request names
MaxMedia == 2
NumPosts == 2
NumWorkers == 2
MaxJobs == 2
MaxTokens == 1
MaxEdits == 1
\* the most media assets a post handed to the adapter has
MaxItems == 3
\* the longest a remote call takes, or a timer is late, in ms
MaxLatency == 1000
\* the most media assets a post handed to validateMedia has
MaxAssets == 11

\* ------------------------------------------------------ program constants
\* `attempts: 3` of the job options
JobAttempts == 3
\* `backoff: {type: 'exponential', delay: 5000}` of the job options
BackoffDelay == 5000
\* `retryCount < 3` of the worker
MaxRetries == 3
\* `dbPost.retryCount < 2` of the worker's catch block
RethrowBelow == 2

Posts == 1..NumPosts
Workers == 1..NumWorkers
JobIds == 1..MaxJobs

PENDING == "PENDING"
PUBLISHED == "PUBLISHED"
FAILED == "FAILED"
CANCELLED == "CANCELLED"
PostStatus == {PENDING, PUBLISHED, FAILED, CANCELLED}

\* messages of the errors the pipeline can meet
PostNotFound == "Post not found"
PostIdNotFound == "Post <id> not found"
RecordNotFound == "Record to update not found"
RefreshFailed == "Failed to refresh token"
AdapterNotFound == "Platform adapter not found"
MediaCountFault == "Image post must have exactly 1 image"
ReelCountFault == "Reel must have exactly 1 video"
AdapterErrors == {"Container processing timeout"}
NoMessage == ""

FailedPostNotFound == "Failed post not found"
AccountNotFound == "Social account not found or inactive"
AssetsNotFound == "Some media assets not found"
ValidationFailed == "Media validation failed"
TimeNotFuture == "Scheduled time must be in the future"

\* PostType, as far as the routes let a request name it
IMAGE == "IMAGE"
CAROUSEL == "CAROUSEL"
REEL == "REEL"
PostTypes == {IMAGE, CAROUSEL, REEL}

\* the adapters the PlatformFactory registers, and the platform names a stored
\* post can carry
Registered == {"instagram"}
Platforms == {"instagram", "youtube"}

VARIABLES
    scheduledPost,  \* prisma.scheduledPost: post id -> row
    socialAccount,  \* prisma.socialAccount: the linked account's credential
    jobLog,         \* prisma.jobLog: post id -> rows appended for it
    jobs,           \* publishQueue: job id -> job
    worker,         \* a handler invocation of publishQueue.process per worker
    edits,          \* number of updatePost and deletePost requests served
    apiError,       \* message of the last error a request of the API threw
    adapter,        \* a call of InstagramAdapter.publishPost / publishReel
    validation,     \* a call of InstagramAdapter.validateMedia and what it returned
    deleting        \* posts whose deletePost has awaited cancelPost and not yet deleted the row

vars == <<scheduledPost, socialAccount, jobLog, jobs, worker, edits, apiError, adapter, validation, deleting>>

\* ------------------------------------------------------------------ rows
NullPost ==
    [exists |-> FALSE, status |-> PENDING, retryCount |-> 0,
     errorMessage |-> NoMessage, platformPostId |-> 0, publishedAt |-> FALSE,
     platform |-> "none", postType |-> "none", mediaAssets |-> 0]

\* an empty slot of the queue; the options are Bull's defaults
NullJob ==
    [state |-> "none", postId |-> 0, attemptsMade |-> 0, publishCalls |-> 0, published |-> 0,
     outcomes |-> <<>>, lastError |-> NoMessage,
     delay |-> 0, attempts |-> 1, backoff |-> 0]

\* a PublishResult, and whether media_publish answered a remote post id in
\* the call that returned it
NullResult == [success |-> FALSE, platformPostId |-> 0, error |-> NoMessage, published |-> FALSE]

IdleWorker ==
    [pc |-> "idle", job |-> 0, accessToken |-> 0, refreshed |-> FALSE,
     dbRetry |-> -1, result |-> NullResult, error |-> NoMessage,
     catchRetry |-> -1, writes |-> 0, wrote |-> "none", startStatus |-> "none",
     platform |-> "none", postType |-> "none", mediaAssets |-> 0]

\* what publishPost / publishReel return; an error text is a pair of the
\* fixed part of the message and the part the platform supplied
NullPublishResult ==
    [success |-> FALSE, platformPostId |-> 0, error |-> <<NoMessage, NoMessage>>,
     errorCode |-> NoMessage]

\* validateMedia has not been called
NoValidation ==
    [postType |-> "none", media |-> <<>>,
     result |-> [valid |-> FALSE, errors |-> <<>>, warnings |-> <<>>]]

\* no call of the adapter has begun
IdleAdapter ==
    [pc |-> "idle", method |-> "none", postType |-> "none", mediaAssets |-> <<>>,
     imageUrls |-> <<>>, timeout |-> 0, elapsed |-> 0, polls |-> 0,
     observed |-> {}, containers |-> 0, containerIds |-> <<>>, containerId |-> 0,
     publishId |-> 0, calls |-> <<>>, credentials |-> FALSE, threw |-> FALSE,
     response |-> [thrown |-> FALSE, status_code |-> "none", status |-> NoMessage],
     result |-> NullPublishResult]

\* `a || b` on strings: the empty string is falsy
OrElse(a, b) == IF a = NoMessage THEN b ELSE a

Init ==
    /\ scheduledPost = [p \in Posts |-> NullPost]
    /\ socialAccount = [accessToken |-> 0, expired |-> FALSE]
    /\ jobLog = [p \in Posts |-> <<>>]
    /\ jobs = [j \in JobIds |-> NullJob]
    /\ worker = [w \in Workers |-> IdleWorker]
    /\ edits = 0
    /\ apiError = NoMessage
    /\ adapter = IdleAdapter
    /\ validation = NoValidation
    /\ deleting = {}

\* ------------------------------------------------------------- the queue
JobsOf(q, p) == {j \in JobIds : q[j].state # "none" /\ q[j].postId = p}

\* the jobs of a post the broker still holds: waiting, delayed or active
LiveJobsOf(q, p) == {j \in JobsOf(q, p) : q[j].state \in {"waiting", "delayed", "active"}}

HasFreeJob(q) == \E j \in JobIds : q[j].state = "none"

NextJobId(q) == CHOOSE j \in JobIds : q[j].state = "none" /\ \A k \in JobIds : k < j => q[k].state # "none"

\* variant: the job of a time that has passed is added without options
schedulePost_PastWithoutOptions(q, p, delay) ==
    [q EXCEPT ![NextJobId(q)] =
        IF delay < 0
        THEN [NullJob EXCEPT !.state = "waiting", !.postId = p]
        ELSE [NullJob EXCEPT !.state = IF delay > 0 THEN "delayed" ELSE "waiting",
                             !.postId = p, !.delay = delay,
                             !.attempts = JobAttempts, !.backoff = BackoffDelay]]

\* delay = scheduledAt - Date.now(); a time that has passed adds the job
\* without a delay, any other adds it with {delay, attempts: 3, backoff}.
\* Bull keeps a job with a positive delay delayed and makes any other wait
\* for a worker
schedulePost(q, p, delay) ==
    [q EXCEPT ![NextJobId(q)] =
        IF delay < 0
        THEN [NullJob EXCEPT !.state = "waiting", !.postId = p,
                             !.attempts = JobAttempts, !.backoff = BackoffDelay]
        ELSE [NullJob EXCEPT !.state = IF delay > 0 THEN "delayed" ELSE "waiting",
                             !.postId = p, !.delay = delay,
                             !.attempts = JobAttempts, !.backoff = BackoffDelay]]

\* job.remove() is refused for a job a worker holds the lock of: cancelPost
\* walks the waiting and the delayed jobs first and rejects at the active one
cancelPostThrows(q, p) == \E j \in JobsOf(q, p) : q[j].state = "active"

\* variant: no job is removed
cancelPost_Nothing(q, p) == q

\* variant: the job a worker is running is removed too
cancelPost_AlsoActive(q, p) ==
    [j \in JobIds |->
        IF q[j].postId = p /\ q[j].state \in {"waiting", "delayed", "active"}
        THEN [q[j] EXCEPT !.state = "removed"]
        ELSE q[j]]

\* variant: only the waiting jobs are looked at
cancelPost_WaitingOnly(q, p) ==
    [j \in JobIds |->
        IF q[j].postId = p /\ q[j].state = "waiting"
        THEN [q[j] EXCEPT !.state = "removed"]
        ELSE q[j]]

\* the jobs getJobs(['waiting', 'delayed', 'active']) lists for the post, in
\* that order: the waiting and the delayed ones are removed
cancelPost(q, p) ==
    [j \in JobIds |->
        IF q[j].postId = p /\ q[j].state \in {"waiting", "delayed"}
        THEN [q[j] EXCEPT !.state = "removed"]
        ELSE q[j]]

\* the time of a delayed job (first run or backoff) comes
JobDue(j) ==
    /\ jobs[j].state = "delayed"
    /\ jobs' = [jobs EXCEPT ![j].state = "waiting"]
    /\ UNCHANGED <<scheduledPost, socialAccount, jobLog, worker, edits, apiError, adapter, validation, deleting>>

\* the stored expiry passes: tokenExpiresAt <= new Date() from now on
TokenExpires ==
    /\ ~socialAccount.expired
    /\ socialAccount.accessToken < MaxTokens
    /\ socialAccount' = [socialAccount EXCEPT !.expired = TRUE]
    /\ UNCHANGED <<scheduledPost, jobLog, jobs, worker, edits, apiError, adapter, validation, deleting>>

\* ------------------------------------------------------ media validation
\* 8 * 1024 * 1024 and 100 * 1024 * 1024 bytes
MaxImageBytes == 8 * 1024 * 1024
MaxVideoBytes_AsImages == 8 * 1024 * 1024

MaxVideoBytes == 100 * 1024 * 1024

\* a mime type is the pair of its two parts, the empty string is <<>>; a size
\* or a dimension of 0 stands for a missing one (`m.fileSize || undefined`)
ImageJpeg == <<"image", "jpeg">>
VideoMp4 == <<"video", "mp4">>

StartsWith_Anything(fileType, prefix) == TRUE

\* fileType.startsWith(prefix + '/')
StartsWith(fileType, prefix) == fileType # <<>> /\ fileType[1] = prefix

\* the media assets requests are made with: an image that passes, one that
\* is too wide, one that is too large, and a video
PlainImage == [fileType |-> ImageJpeg, fileSize |-> 1, width |-> 1080, height |-> 1080]
WideImage == [PlainImage EXCEPT !.width = 2000]
LargeImage == [PlainImage EXCEPT !.fileSize = MaxImageBytes + 1]
PlainVideo == [fileType |-> VideoMp4, fileSize |-> MaxImageBytes + 1, width |-> 1080, height |-> 1920]
Assets == {PlainImage, WideImage, LargeImage, PlainVideo}

\* the entries a list of conditions adds, in order
RECURSIVE Collect(_)
Collect(entries) ==
    IF entries = <<>> THEN <<>>
    ELSE (IF entries[1].when THEN <<entries[1].text>> ELSE <<>>) \o Collect(Tail(entries))

CarouselItems_Unchecked(media, index) == <<>>

\* the two checks of every item of a carousel, item by item
RECURSIVE CarouselItems(_, _)
CarouselItems(media, index) ==
    IF index > Len(media) THEN <<>>
    ELSE Collect(<<
            [when |-> media[index].fileType # <<>> /\ ~StartsWith(media[index].fileType, "image"),
             text |-> <<"Item in carousel must be an image", index>>],
            [when |-> media[index].fileSize # 0 /\ media[index].fileSize > MaxImageBytes,
             text |-> <<"Item in carousel exceeds 8MB limit", index>>]>>)
         \o CarouselItems(media, index + 1)

\* InstagramAdapter.validateMedia
validateMedia(media, postType) ==
    LET has == Len(media) > 0
        first == media[1]
        errors ==
            IF postType = IMAGE THEN Collect(<<
                [when |-> Len(media) # 1,
                 text |-> <<"Image post must have exactly 1 image", 0>>],
                [when |-> has /\ first.fileType # <<>> /\ ~StartsWith(first.fileType, "image"),
                 text |-> <<"Invalid file type for image post. Must be an image.", 0>>],
                [when |-> has /\ first.fileSize # 0 /\ first.fileSize > MaxImageBytes,
                 text |-> <<"Image file size must be less than 8MB", 0>>]>>)
            ELSE IF postType = CAROUSEL THEN Collect(<<
                [when |-> Len(media) < 2 \/ Len(media) > 10,
                 text |-> <<"Carousel post must have between 2 and 10 images", 0>>]>>)
                \o CarouselItems(media, 1)
            ELSE IF postType = REEL THEN Collect(<<
                [when |-> Len(media) # 1,
                 text |-> <<"Reel must have exactly 1 video", 0>>],
                [when |-> has /\ first.fileType # <<>> /\ ~StartsWith(first.fileType, "video"),
                 text |-> <<"Invalid file type for reel. Must be a video.", 0>>],
                [when |-> has /\ first.fileSize # 0 /\ first.fileSize > MaxVideoBytes,
                 text |-> <<"Video file size must be less than 100MB", 0>>]>>)
            ELSE <<>>
        warnings ==
            IF postType = IMAGE THEN Collect(<<
                [when |-> has /\ first.width # 0 /\ (first.width < 320 \/ first.width > 1440),
                 text |-> <<"Image width should be between 320 and 1440 pixels for best quality", 0>>],
                [when |-> has /\ first.height # 0 /\ (first.height < 320 \/ first.height > 1440),
                 text |-> <<"Image height should be between 320 and 1440 pixels for best quality", 0>>]>>)
            ELSE IF postType = REEL THEN Collect(<<
                [when |-> has /\ first.width # 0 /\ first.width # 1080,
                 text |-> <<"Reel width should be 1080 pixels for best quality", 0>>],
                [when |-> has /\ first.height # 0 /\ first.height # 1920,
                 text |-> <<"Reel height should be 1920 pixels (9:16 aspect ratio)", 0>>]>>)
            ELSE <<>>
    IN [valid |-> errors = <<>>, errors |-> errors, warnings |-> warnings]

\* the posts validateMedia is called with. An asset carries the mime type the
\* upload recorded, a size (0: none recorded) and dimensions (0: none)
Widths == {0, 319, 320, 1080, 1440, 1441}
Heights == {0, 319, 320, 1440, 1441, 1920}
AnyAssets ==
    [fileType : {ImageJpeg, VideoMp4},
     fileSize : {0, 8 * 1024 * 1024, 8 * 1024 * 1024 + 1,
                 100 * 1024 * 1024, 100 * 1024 * 1024 + 1},
     width : Widths, height : Heights]

\* no asset, one asset of any kind, or one followed by another; and up to
\* MaxAssets plain images, among them at most two other assets
ValidatedLists ==
    {<<>>} \cup {<<a>> : a \in AnyAssets} \cup {<<a, b>> : a \in AnyAssets, b \in Assets}
    \cup {[k \in 1..n |-> IF k = i THEN a ELSE IF k = j THEN b ELSE PlainImage] :
            n \in 0..MaxAssets, i \in 1..MaxAssets, j \in 1..MaxAssets,
            a \in Assets, b \in Assets}

\* adapter.validateMedia(media, postType) returns
validateMediaCalled(media, postType) ==
    /\ validation.postType = "none"
    /\ validation' = [postType |-> postType, media |-> media,
                      result |-> validateMedia(media, postType)]
    /\ UNCHANGED <<scheduledPost, socialAccount, jobLog, jobs, worker, edits, apiError, adapter, deleting>>

\* ------------------------------------------------------ the posts service
\* scheduledAt - Date.now() in milliseconds, as far as schedulePost tells the
\* values apart: the time given at creation is in the future, the time of an
\* edit is another time in the future, and the `new Date()` of retryPost is
\* the present or, a millisecond later, the past
CreateDelay == 1
EditDelay == 2

\* what a request to create a post is made of: whether the account and the
\* assets it names are found, the post type, the assets, and whether
\* scheduledAt is later than now
CreateDtos ==
    [accountFound : BOOLEAN, assetsFound : BOOLEAN, postType : PostTypes,
     media : UNION {[1..n -> Assets] : n \in 0..MaxMedia}, future : BOOLEAN]

\* the request the pipeline is driven with: one image, in time
PlainDto ==
    [accountFound |-> TRUE, assetsFound |-> TRUE, postType |-> IMAGE,
     media |-> <<PlainImage>>, future |-> TRUE]

\* variant: warnings block the creation too
createError_WarningsBlock(dto) ==
    IF ~dto.accountFound THEN AccountNotFound
    ELSE IF ~dto.assetsFound THEN AssetsNotFound
    ELSE IF ~validateMedia(dto.media, dto.postType).valid
            \/ validateMedia(dto.media, dto.postType).warnings # <<>> THEN ValidationFailed
    ELSE IF ~dto.future THEN TimeNotFuture
    ELSE NoMessage

\* the error createScheduledPost throws before it writes anything, if any
createError(dto) ==
    IF ~dto.accountFound THEN AccountNotFound
    ELSE IF ~dto.assetsFound THEN AssetsNotFound
    ELSE IF ~validateMedia(dto.media, dto.postType).valid THEN ValidationFailed
    ELSE IF ~dto.future THEN TimeNotFuture
    ELSE NoMessage

\* a post gets a fresh id: an id that had a job is not used again
createScheduledPost(p, dto) ==
    /\ ~scheduledPost[p].exists
    /\ JobsOf(jobs, p) = {}
    /\ HasFreeJob(jobs)
    /\ createError(dto) = NoMessage
    /\ scheduledPost' = [scheduledPost EXCEPT ![p] =
            [NullPost EXCEPT !.exists = TRUE, !.platform = "instagram",
                             !.postType = dto.postType, !.mediaAssets = Len(dto.media)]]
    /\ jobs' = schedulePost(jobs, p, CreateDelay)
    /\ UNCHANGED <<socialAccount, jobLog, worker, edits, apiError, adapter, validation, deleting>>

\* variant: a published or cancelled post can be edited too
Editable_Always(row) == TRUE

\* 'Cannot update published post' / 'Cannot update cancelled post'
Editable(row) == row.status \notin {PUBLISHED, CANCELLED}

\* createScheduledPost throws at one of its checks
createScheduledPostRejected(p) ==
    /\ ~scheduledPost[p].exists
    /\ JobsOf(jobs, p) = {}
    /\ \E dto \in CreateDtos :
          /\ createError(dto) # NoMessage
          /\ apiError' = createError(dto)
    /\ UNCHANGED <<scheduledPost, socialAccount, jobLog, jobs, worker, edits, adapter, validation, deleting>>

\* the requests of every kind that createScheduledPost accepts
createScheduledPostAccepted(p) ==
    /\ ~scheduledPost[p].exists
    /\ \E dto \in CreateDtos : createScheduledPost(p, dto)

UpdateDtos == [reschedule : BOOLEAN, status : PostStatus \cup {"unset"}]

updatePost(p, dto) ==
    /\ edits < MaxEdits
    /\ edits' = edits + 1
    /\ scheduledPost[p].exists
    /\ Editable(scheduledPost[p])
    /\ dto.reschedule \/ dto.status # "unset"
    /\ IF dto.reschedule /\ cancelPostThrows(jobs, p)
       THEN /\ jobs' = cancelPost(jobs, p)
            /\ UNCHANGED scheduledPost
       ELSE /\ dto.reschedule => HasFreeJob(jobs)
            /\ jobs' = IF dto.reschedule
                       THEN schedulePost(cancelPost(jobs, p), p, EditDelay)
                       ELSE jobs
            /\ scheduledPost' =
                 IF dto.status = "unset" THEN scheduledPost
                 ELSE [scheduledPost EXCEPT ![p].status = dto.status]
    /\ UNCHANGED <<socialAccount, jobLog, worker, apiError, adapter, validation, deleting>>

\* cancelPost, then prisma.scheduledPost.delete. The delete of a post that
\* has jobLog rows depends on the foreign key of the schema: it is refused, or
\* it takes the rows with it
deletePost(p, cascade) ==
    /\ edits < MaxEdits
    /\ edits' = edits + 1
    /\ scheduledPost[p].exists
    /\ scheduledPost[p].status # PUBLISHED
    /\ jobs' = cancelPost(jobs, p)
    /\ IF cancelPostThrows(jobs, p) \/ (jobLog[p] # <<>> /\ ~cascade)
       THEN UNCHANGED <<scheduledPost, jobLog>>
       ELSE /\ scheduledPost' = [scheduledPost EXCEPT ![p] = NullPost]
            /\ jobLog' = [jobLog EXCEPT ![p] = <<>>]
    /\ UNCHANGED <<socialAccount, worker, apiError, adapter, validation, deleting>>

\* deletePost up to the end of `await schedulerService.cancelPost(postId)`:
\* other requests are served before the row is deleted
deletePostCancels(p) ==
    /\ p \notin deleting
    /\ scheduledPost[p].exists
    /\ scheduledPost[p].status # PUBLISHED
    /\ jobs' = cancelPost(jobs, p)
    /\ deleting' = IF cancelPostThrows(jobs, p) THEN deleting ELSE deleting \cup {p}
    /\ UNCHANGED <<scheduledPost, socialAccount, jobLog, worker, edits, apiError, adapter, validation>>

\* deletePost from `await prisma.scheduledPost.delete` on; the jobs added
\* since cancelPost ran stay in the queue
deletePostDeletes(p, cascade) ==
    /\ p \in deleting
    /\ deleting' = deleting \ {p}
    /\ IF ~scheduledPost[p].exists \/ (jobLog[p] # <<>> /\ ~cascade)
       THEN UNCHANGED <<scheduledPost, jobLog>>
       ELSE /\ scheduledPost' = [scheduledPost EXCEPT ![p] = NullPost]
            /\ jobLog' = [jobLog EXCEPT ![p] = <<>>]
    /\ UNCHANGED <<socialAccount, jobs, worker, edits, apiError, adapter, validation>>

\* variant: the post is looked up by id alone
retryPostFinds_AnyStatus(row) == row.exists

\* findFirst({where: {id, userId, status: FAILED}})
retryPostFinds(row) == row.exists /\ row.status = FAILED

\* retryPost throws 'Failed post not found'
retryPostRejected(p) ==
    /\ ~retryPostFinds(scheduledPost[p])
    /\ apiError' = FailedPostNotFound
    /\ UNCHANGED <<scheduledPost, socialAccount, jobLog, jobs, worker, edits, adapter, validation, deleting>>

retryPost(p) ==
    /\ retryPostFinds(scheduledPost[p])
    /\ HasFreeJob(jobs)
    /\ scheduledPost' = [scheduledPost EXCEPT ![p].status = PENDING,
                                               ![p].retryCount = 0,
                                               ![p].errorMessage = NoMessage]
    /\ \E delay \in {-1, 0} : jobs' = schedulePost(jobs, p, delay)
    /\ UNCHANGED <<socialAccount, jobLog, worker, edits, apiError, adapter, validation, deleting>>

\* MediaService.deleteMedia: an asset is deleted, attached to a post or not
deleteMedia(p) ==
    /\ scheduledPost[p].exists
    /\ scheduledPost[p].mediaAssets > 0
    /\ scheduledPost' = [scheduledPost EXCEPT ![p].mediaAssets = @ - 1]
    /\ UNCHANGED <<socialAccount, jobLog, jobs, worker, edits, apiError, adapter, validation, deleting>>

\* ------------------------------------------------------------ the worker
\* what the adapter's publishPost / publishReel can return: it catches every
\* fault of the protocol and reports it as {success: false, error}
PublishResults ==
    {[success |-> TRUE, platformPostId |-> 1, error |-> NoMessage, published |-> TRUE]}
    \cup {[NullResult EXCEPT !.error = e] : e \in AdapterErrors}

\* the adapter checks the prepared post before it talks to the platform: an
\* image or a reel needs exactly one media asset; the fault is caught by the
\* adapter and returned as a failure result like any other
publishPost(postType, mediaAssets) ==
    IF postType = REEL /\ mediaAssets # 1
    THEN {[NullResult EXCEPT !.error = ReelCountFault]}
    ELSE IF postType = IMAGE /\ mediaAssets # 1
    THEN {[NullResult EXCEPT !.error = MediaCountFault]}
    ELSE PublishResults

PostOf(w) == jobs[worker[w].job].postId

\* the number of the attempt a handler invocation is: job.attemptsMade + 1
AttemptNo(w) == jobs[worker[w].job].attemptsMade + 1

\* the handler returned: Bull completes the job
JobReturn(q, j, outcome) ==
    [q EXCEPT ![j].state = "completed",
              ![j].outcomes = Append(@, outcome.kind),
              ![j].lastError = outcome.error]

\* the handler threw: Bull counts the attempt and re-runs the job after the
\* backoff while attemptsMade < attempts, and fails it otherwise
JobThrow(q, j, outcome) ==
    [q EXCEPT ![j].attemptsMade = @ + 1,
              ![j].state = IF q[j].attemptsMade + 1 < q[j].attempts THEN "delayed" ELSE "failed",
              ![j].outcomes = Append(@, outcome.kind),
              ![j].lastError = outcome.error]

\* control passes to the catch block with the thrown error
Caught(w, message) ==
    [worker[w] EXCEPT !.pc = "catchRead", !.error = message]

\* a worker takes a waiting job and starts the handler
Dequeue(w, j) ==
    /\ worker[w].pc = "idle"
    /\ jobs[j].state = "waiting"
    /\ jobs' = [jobs EXCEPT ![j].state = "active"]
    /\ worker' = [worker EXCEPT ![w] =
            [IdleWorker EXCEPT !.pc = "prepare", !.job = j,
                               !.startStatus =
                                   IF scheduledPost[jobs[j].postId].exists
                                   THEN scheduledPost[jobs[j].postId].status
                                   ELSE "none"]]
    /\ UNCHANGED <<scheduledPost, socialAccount, jobLog, edits, apiError, adapter, validation, deleting>>

\* platformFactory.getAdapter throws for a name no adapter is registered under
isSupported(platformName) == platformName \in Registered

\* variant: the credential is refreshed at every attempt
needsRefresh_Always(account) == TRUE

\* tokenExpiresAt && tokenExpiresAt <= new Date()
needsRefresh(account) == account.expired

\* preparePostForPublishing: load the post with its account and its media;
\* an expired credential asks the platform's adapter for a refresh
Prepare(w) ==
    /\ worker[w].pc = "prepare"
    /\ LET post == scheduledPost[PostOf(w)] IN
       worker' = [worker EXCEPT ![w] =
            IF ~post.exists THEN Caught(w, PostNotFound)
            ELSE IF needsRefresh(socialAccount)
            THEN IF isSupported(post.platform)
                 THEN [@ EXCEPT !.pc = "refresh", !.platform = post.platform,
                                !.postType = post.postType,
                                !.mediaAssets = post.mediaAssets]
                 ELSE Caught(w, AdapterNotFound)
            ELSE [@ EXCEPT !.pc = "check", !.accessToken = socialAccount.accessToken,
                           !.platform = post.platform, !.postType = post.postType,
                           !.mediaAssets = post.mediaAssets]]
    /\ UNCHANGED <<scheduledPost, socialAccount, jobLog, jobs, edits, apiError, adapter, validation, deleting>>

\* variant: a failed refresh still writes the account's expiry
Refresh_FailureWritesExpiry(w, ok) ==
    /\ worker[w].pc = "refresh"
    /\ IF ok
       THEN /\ socialAccount.accessToken < MaxTokens
            /\ socialAccount' = [accessToken |-> socialAccount.accessToken + 1,
                                 expired |-> FALSE]
            /\ worker' = [worker EXCEPT ![w].pc = "check",
                                        ![w].refreshed = TRUE,
                                        ![w].accessToken = socialAccount.accessToken + 1]
       ELSE /\ worker' = [worker EXCEPT ![w] = [Caught(w, RefreshFailed) EXCEPT !.refreshed = TRUE]]
            /\ socialAccount' = [socialAccount EXCEPT !.expired = FALSE]
    /\ UNCHANGED <<scheduledPost, jobLog, jobs, edits, apiError, adapter, validation, deleting>>

\* preparePostForPublishing: adapter.refreshToken, then the account update
Refresh(w, ok) ==
    /\ worker[w].pc = "refresh"
    /\ IF ok
       THEN /\ socialAccount.accessToken < MaxTokens
            /\ socialAccount' = [accessToken |-> socialAccount.accessToken + 1,
                                 expired |-> FALSE]
            /\ worker' = [worker EXCEPT ![w].pc = "check",
                                        ![w].refreshed = TRUE,
                                        ![w].accessToken = socialAccount.accessToken + 1]
       ELSE /\ worker' = [worker EXCEPT ![w] = [Caught(w, RefreshFailed) EXCEPT !.refreshed = TRUE]]
            /\ UNCHANGED socialAccount
    /\ UNCHANGED <<scheduledPost, jobLog, jobs, edits, apiError, adapter, validation, deleting>>

\* the staleness check: re-read the post and skip unless it is PENDING, then
\* look the adapter of the post's platform up
Check(w) ==
    /\ worker[w].pc = "check"
    /\ LET dbPost == scheduledPost[PostOf(w)] IN
       IF ~dbPost.exists
       THEN /\ worker' = [worker EXCEPT ![w] = Caught(w, PostIdNotFound)]
            /\ UNCHANGED jobs
       ELSE IF dbPost.status # PENDING
       THEN /\ worker' = [worker EXCEPT ![w] = IdleWorker]
            /\ jobs' = JobReturn(jobs, worker[w].job, [kind |-> "skipped", error |-> NoMessage])
       ELSE IF ~isSupported(worker[w].platform)
       THEN /\ worker' = [worker EXCEPT ![w] = Caught(w, AdapterNotFound)]
            /\ UNCHANGED jobs
       ELSE /\ worker' = [worker EXCEPT ![w].pc = "publish", ![w].dbRetry = dbPost.retryCount]
            /\ UNCHANGED jobs
    /\ UNCHANGED <<scheduledPost, socialAccount, jobLog, edits, apiError, adapter, validation, deleting>>

\* adapter.publishReel(post) / adapter.publishPost(post)
Publish(w, result) ==
    /\ worker[w].pc = "publish"
    /\ worker' = [worker EXCEPT ![w].pc = "update", ![w].result = result]
    /\ jobs' = [jobs EXCEPT ![worker[w].job].publishCalls = @ + 1,
                            ![worker[w].job].published = @ + IF result.published THEN 1 ELSE 0]
    /\ UNCHANGED <<scheduledPost, socialAccount, jobLog, edits, apiError, adapter, validation, deleting>>

\* variant: the cap compared with <= instead of <
shouldRetry_OffByOne(retryCount) == retryCount <= MaxRetries

\* the status a failed attempt leaves, from the retry count it writes
shouldRetry(retryCount) == retryCount < MaxRetries

\* variant: an error message already stored is kept
FailureUpdate_KeepsFirstMessage(row, retryCount, message) ==
    [row EXCEPT !.status = IF shouldRetry(retryCount) THEN PENDING ELSE FAILED,
                !.retryCount = retryCount,
                !.errorMessage = OrElse(row.errorMessage, message)]

\* the data of the update a failed attempt makes
FailureUpdate(row, retryCount, message) ==
    [row EXCEPT !.status = IF shouldRetry(retryCount) THEN PENDING ELSE FAILED,
                !.retryCount = retryCount,
                !.errorMessage = message]

\* variant: the remote post id is not stored
SuccessUpdate_DropsPlatformId(row, result) ==
    [row EXCEPT !.status = PUBLISHED,
                !.publishedAt = TRUE,
                !.errorMessage = NoMessage]

\* variant: success also clears the retry counter
SuccessUpdate_ResetsRetryCount(row, result) ==
    [row EXCEPT !.status = PUBLISHED,
                !.platformPostId = result.platformPostId,
                !.publishedAt = TRUE,
                !.errorMessage = NoMessage,
                !.retryCount = 0]

\* the data of the update a successful attempt makes
SuccessUpdate(row, result) ==
    [row EXCEPT !.status = PUBLISHED,
                !.platformPostId = result.platformPostId,
                !.publishedAt = TRUE,
                !.errorMessage = NoMessage]

\* prisma.scheduledPost.update of the success and of the failure branch
Update(w) ==
    /\ worker[w].pc = "update"
    /\ LET p == PostOf(w)
           result == worker[w].result IN
       IF ~scheduledPost[p].exists
       THEN /\ worker' = [worker EXCEPT ![w] = Caught(w, RecordNotFound)]
            /\ UNCHANGED scheduledPost
       ELSE IF result.success
       THEN /\ scheduledPost' = [scheduledPost EXCEPT ![p] = SuccessUpdate(@, result)]
            /\ worker' = [worker EXCEPT ![w].pc = "logSuccess", ![w].writes = @ + 1,
                                        ![w].wrote = PUBLISHED]
       ELSE /\ scheduledPost' = [scheduledPost EXCEPT ![p] =
                    FailureUpdate(@, worker[w].dbRetry + 1, OrElse(result.error, "Unknown error"))]
            /\ worker' = [worker EXCEPT ![w].pc = "logFailure", ![w].writes = @ + 1,
                                        ![w].wrote = scheduledPost'[p].status]
    /\ UNCHANGED <<socialAccount, jobLog, jobs, edits, apiError, adapter, validation, deleting>>

\* prisma.jobLog.create of the success branch, and the return
LogSuccess(w) ==
    /\ worker[w].pc = "logSuccess"
    /\ jobLog' = [jobLog EXCEPT ![PostOf(w)] =
            Append(@, [status |-> "published", attempt |-> AttemptNo(w),
                       retryCount |-> -1, willRetry |-> FALSE])]
    /\ jobs' = JobReturn(jobs, worker[w].job, [kind |-> "published", error |-> NoMessage])
    /\ worker' = [worker EXCEPT ![w] = IdleWorker]
    /\ UNCHANGED <<scheduledPost, socialAccount, edits, apiError, adapter, validation, deleting>>

\* prisma.jobLog.create of the failure branch, then the throw or the return
LogFailure(w) ==
    /\ worker[w].pc = "logFailure"
    /\ LET retryCount == worker[w].dbRetry + 1
           message == OrElse(worker[w].result.error, "Publish failed") IN
       /\ jobLog' = [jobLog EXCEPT ![PostOf(w)] =
               Append(@, [status |-> "failed", attempt |-> AttemptNo(w),
                          retryCount |-> retryCount, willRetry |-> shouldRetry(retryCount)])]
       /\ IF shouldRetry(retryCount)
          THEN /\ worker' = [worker EXCEPT ![w] = Caught(w, message)]
               /\ UNCHANGED jobs
          ELSE /\ worker' = [worker EXCEPT ![w] = IdleWorker]
               /\ jobs' = JobReturn(jobs, worker[w].job,
                                    [kind |-> "failed", error |-> worker[w].result.error])
    /\ UNCHANGED <<scheduledPost, socialAccount, edits, apiError, adapter, validation, deleting>>

\* variant: the catch block rethrows when the post is not found
CatchRead_RethrowsMissing(w) ==
    /\ worker[w].pc = "catchRead"
    /\ LET dbPost == scheduledPost[PostOf(w)] IN
       IF dbPost.exists
       THEN /\ worker' = [worker EXCEPT ![w].pc = "catchUpdate",
                                        ![w].catchRetry = dbPost.retryCount]
            /\ UNCHANGED jobs
       ELSE /\ worker' = [worker EXCEPT ![w] = IdleWorker]
            /\ jobs' = JobThrow(jobs, worker[w].job,
                                [kind |-> "thrown", error |-> worker[w].error])
    /\ UNCHANGED <<scheduledPost, socialAccount, jobLog, edits, apiError, adapter, validation, deleting>>

\* catch block: prisma.scheduledPost.findUnique
CatchRead(w) ==
    /\ worker[w].pc = "catchRead"
    /\ LET dbPost == scheduledPost[PostOf(w)] IN
       IF dbPost.exists
       THEN /\ worker' = [worker EXCEPT ![w].pc = "catchUpdate",
                                        ![w].catchRetry = dbPost.retryCount]
            /\ UNCHANGED jobs
       ELSE /\ worker' = [worker EXCEPT ![w] = IdleWorker]
            /\ jobs' = JobReturn(jobs, worker[w].job,
                                 [kind |-> "error", error |-> worker[w].error])
    /\ UNCHANGED <<scheduledPost, socialAccount, jobLog, edits, apiError, adapter, validation, deleting>>

\* catch block: prisma.scheduledPost.update
CatchUpdate(w) ==
    /\ worker[w].pc = "catchUpdate"
    /\ LET p == PostOf(w) IN
       IF ~scheduledPost[p].exists
       THEN /\ worker' = [worker EXCEPT ![w] = IdleWorker]
            /\ jobs' = JobThrow(jobs, worker[w].job,
                                [kind |-> "thrown", error |-> RecordNotFound])
            /\ UNCHANGED scheduledPost
       ELSE /\ scheduledPost' = [scheduledPost EXCEPT ![p] =
                    FailureUpdate(@, worker[w].catchRetry + 1, worker[w].error)]
            /\ worker' = [worker EXCEPT ![w].pc = "catchLog", ![w].writes = @ + 1,
                                        ![w].wrote = scheduledPost'[p].status]
            /\ UNCHANGED jobs
    /\ UNCHANGED <<socialAccount, jobLog, edits, apiError, adapter, validation, deleting>>

\* variant: the rethrow threshold one lower
rethrows_OffByOne(dbRetryCount) == dbRetryCount < RethrowBelow - 1

\* whether the catch block hands the error back to Bull
rethrows(dbRetryCount) == dbRetryCount < RethrowBelow

\* catch block: prisma.jobLog.create, then the rethrow or the return
CatchLog(w) ==
    /\ worker[w].pc = "catchLog"
    /\ LET retryCount == worker[w].catchRetry + 1 IN
       /\ jobLog' = [jobLog EXCEPT ![PostOf(w)] =
               Append(@, [status |-> "error", attempt |-> AttemptNo(w),
                          retryCount |-> retryCount, willRetry |-> shouldRetry(retryCount)])]
       /\ jobs' = IF rethrows(worker[w].catchRetry)
                  THEN JobThrow(jobs, worker[w].job, [kind |-> "thrown", error |-> worker[w].error])
                  ELSE JobReturn(jobs, worker[w].job, [kind |-> "error", error |-> worker[w].error])
    /\ worker' = [worker EXCEPT ![w] = IdleWorker]
    /\ UNCHANGED <<scheduledPost, socialAccount, edits, apiError, adapter, validation, deleting>>

\* one step of the handler a worker runs
WorkerStep(w) ==
    \/ Prepare(w)
    \/ \E ok \in BOOLEAN : Refresh(w, ok)
    \/ Check(w)
    \/ \E result \in publishPost(worker[w].postType, worker[w].mediaAssets) : Publish(w, result)
    \/ Update(w)
    \/ LogSuccess(w)
    \/ LogFailure(w)
    \/ CatchRead(w)
    \/ CatchUpdate(w)
    \/ CatchLog(w)

\* ------------------------------------------------- the Instagram adapter
\* waitForContainerReady: the default timeout, the one publishReel passes and
\* the pause between two polls, in ms
DefaultTimeout == 10000
ReelTimeout == 30000
pollInterval == 2000

\* how long a remote call takes, and how late a timer fires, in ms
Latencies == {0, MaxLatency}

MissingCredentials == "Missing access token or Instagram account ID"
UnsupportedType == "Unsupported post type"
ContainerTimeout == "Container processing timeout"
ProcessingFailed == "Container processing failed"
UnknownError == "Unknown error"
CreateImageFailed == "Failed to create image container"
CreateCarouselFailed == "Failed to create carousel"
CreateReelFailed == "Failed to create reel container"
StatusFailed == "Failed to get container status"
PublishFailed == "Failed to publish post"
PostInfoFailed == "Failed to get post info"

\* the message in the error body of a failed remote call
RemoteMessages == {"Application request limit reached"}

\* what GET /{container}?fields=id,status_code,status answers, or "thrown"
\* when the request fails
PollResponses ==
    [thrown : {FALSE}, status_code : {"FINISHED", "IN_PROGRESS", "EXPIRED", "ERROR"},
     status : {NoMessage, "Media could not be fetched"}]
    \cup [thrown : {TRUE}, status_code : {"none"}, status : RemoteMessages]

\* the media of the posts handed to the adapter: asset i of the list has
\* fileUrl i and any position
PositionLists == UNION {[1..n -> 0..(MaxItems - 1)] : n \in 0..MaxItems}
MediaOf(positions) ==
    [i \in 1..Len(positions) |-> [fileUrl |-> i, position |-> positions[i]]]

\* Array.prototype.sort with (a, b) => (a.position || 0) - (b.position || 0):
\* stable, ascending
InsertByPosition_Front(sorted, a) == <<a>> \o sorted

RECURSIVE InsertByPosition(_, _)
InsertByPosition(sorted, a) ==
    IF sorted = <<>> THEN <<a>>
    ELSE IF Head(sorted).position - a.position <= 0
         THEN <<Head(sorted)>> \o InsertByPosition(Tail(sorted), a)
         ELSE <<a>> \o sorted

RECURSIVE SortByPosition(_)
SortByPosition(media) ==
    IF media = <<>> THEN <<>>
    ELSE InsertByPosition(SortByPosition(SubSeq(media, 1, Len(media) - 1)),
                          media[Len(media)])

\* the identifier the platform gives the next container or post it creates
NewId(a) == 10 + a.containers + 1

\* a request sent to the Graph API, as the platform sees it: what was asked,
\* with which url or identifiers, and the identifier answered (0 when the
\* request failed; for a poll, 1 when the answer was FINISHED and 0 otherwise)
Sent(a, op, arg, id) == [a EXCEPT !.calls = Append(@, [op |-> op, arg |-> arg, id |-> id])]

\* the catch block of publishPost / publishReel.
\* error.response?.data?.error?.code?.toString() || 'UNKNOWN': the errors the
\* adapter catches are the `new Error(...)` of the Graph API service and its
\* own, none of which has a response
Failure(text, detail) ==
    [success |-> FALSE, platformPostId |-> 0, error |-> <<text, detail>>,
     errorCode |-> "UNKNOWN"]

Fail(a, text, detail) == [a EXCEPT !.pc = "done", !.result = Failure(text, detail)]

\* waitForContainerReady up to its first await: startTime is now, and the
\* loop condition holds
StartWaiting(a, containerId, timeout) ==
    [a EXCEPT !.containerId = containerId, !.containers = @ + 1,
              !.timeout = timeout, !.elapsed = 0, !.pc = "poll"]

pipeline == <<scheduledPost, socialAccount, jobLog, jobs, worker, edits, apiError, validation, deleting>>

\* publishPost(post) up to its first await
publishPostBegins(postType, media, credentials) ==
    /\ adapter.pc = "idle"
    /\ LET a == [adapter EXCEPT !.method = "publishPost", !.postType = postType,
                                !.mediaAssets = media, !.credentials = credentials]
       IN  adapter' =
             IF ~credentials THEN Fail(a, MissingCredentials, NoMessage)
             ELSE IF postType = IMAGE
                  THEN IF Len(media) # 1 THEN Fail(a, MediaCountFault, NoMessage)
                       ELSE [a EXCEPT !.pc = "createImage"]
             ELSE IF postType = CAROUSEL
                  THEN LET sorted == SortByPosition(media)
                       IN  [a EXCEPT !.mediaAssets = sorted,
                                     !.imageUrls = [i \in 1..Len(sorted) |-> sorted[i].fileUrl],
                                     !.pc = IF sorted = <<>> THEN "createCarousel"
                                            ELSE "createItem"]
             ELSE Fail(a, UnsupportedType, postType)
    /\ UNCHANGED pipeline

\* publishReel(reel) up to its first await
publishReelBegins(postType, media, credentials) ==
    /\ adapter.pc = "idle"
    /\ LET a == [adapter EXCEPT !.method = "publishReel", !.postType = postType,
                                !.mediaAssets = media, !.credentials = credentials]
       IN  adapter' =
             IF ~credentials THEN Fail(a, MissingCredentials, NoMessage)
             ELSE IF Len(media) # 1 THEN Fail(a, ReelCountFault, NoMessage)
             ELSE [a EXCEPT !.pc = "createReel"]
    /\ UNCHANGED pipeline

\* graphApi.createImageContainer answers
createImageContainer(ok, msg) ==
    /\ adapter.pc = "createImage"
    /\ LET url == adapter.mediaAssets[1].fileUrl
       IN  adapter' =
             IF ok
             THEN StartWaiting(Sent(adapter, "image", <<url>>, NewId(adapter)),
                               NewId(adapter), DefaultTimeout)
             ELSE Fail(Sent(adapter, "image", <<url>>, 0), CreateImageFailed, msg)
    /\ UNCHANGED pipeline

\* graphApi.createReelContainer answers
createReelContainer(ok, msg) ==
    /\ adapter.pc = "createReel"
    /\ LET url == adapter.mediaAssets[1].fileUrl
       IN  adapter' =
             IF ok
             THEN StartWaiting(Sent(adapter, "reel", <<url>>, NewId(adapter)),
                               NewId(adapter), ReelTimeout)
             ELSE Fail(Sent(adapter, "reel", <<url>>, 0), CreateReelFailed, msg)
    /\ UNCHANGED pipeline

\* createCarouselContainers: the POST of the next item answers
createCarouselItem(ok, msg) ==
    /\ adapter.pc = "createItem"
    /\ LET i == Len(adapter.containerIds) + 1
           url == adapter.imageUrls[i]
       IN  adapter' =
             IF ok
             THEN [Sent(adapter, "item", <<url>>, NewId(adapter))
                     EXCEPT !.containerIds = Append(@, NewId(adapter)),
                            !.containers = @ + 1,
                            !.pc = IF i = Len(adapter.imageUrls) THEN "createCarousel"
                                   ELSE "createItem"]
             ELSE Fail(Sent(adapter, "item", <<url>>, 0), CreateCarouselFailed, msg)
    /\ UNCHANGED pipeline

\* createCarouselContainers: the POST of the carousel answers; publishPost
\* takes the first of the identifiers returned
createCarouselParent(ok, msg) ==
    /\ adapter.pc = "createCarousel"
    /\ adapter' =
         IF ok
         THEN StartWaiting(Sent(adapter, "carousel", adapter.containerIds, NewId(adapter)),
                           NewId(adapter), DefaultTimeout)
         ELSE Fail(Sent(adapter, "carousel", adapter.containerIds, 0),
                   CreateCarouselFailed, msg)
    /\ UNCHANGED pipeline

\* the tests of the loop of waitForContainerReady
IsFinished_AnyCode(response) == TRUE

IsFinished(response) == response.status_code = "FINISHED"

IsError_Never(response) == FALSE

IsError(response) == response.status_code = "ERROR"

TimedOut_Never(elapsed, timeout) == FALSE

TimedOut(elapsed, timeout) == ~(elapsed < timeout)

\* waitForContainerReady: getContainerStatus answers after d ms
getContainerStatus(response, d) ==
    /\ adapter.pc = "poll"
    /\ LET finished == ~response.thrown /\ response.status_code = "FINISHED"
           a == [Sent(adapter, "poll", <<adapter.containerId>>, IF finished THEN 1 ELSE 0)
                   EXCEPT !.polls = @ + 1,
                          !.response = response,
                          !.elapsed = @ + d,
                          !.observed = @ \cup {IF response.thrown THEN "thrown"
                                               ELSE response.status_code}]
       IN  adapter' =
             IF response.thrown THEN Fail(a, StatusFailed, response.status)
             ELSE IF IsFinished(response) THEN [a EXCEPT !.pc = "publish"]
             ELSE IF IsError(response)
                  THEN Fail(a, ProcessingFailed, OrElse(response.status, UnknownError))
             ELSE [a EXCEPT !.pc = "sleep"]
    /\ UNCHANGED pipeline

\* waitForContainerReady: the timer fires d ms late and the loop condition is
\* tested again
Sleep(d) ==
    /\ adapter.pc = "sleep"
    /\ LET a == [adapter EXCEPT !.elapsed = @ + pollInterval + d]
       IN  adapter' =
             IF TimedOut(a.elapsed, a.timeout) THEN Fail(a, ContainerTimeout, NoMessage)
             ELSE [a EXCEPT !.pc = "poll"]
    /\ UNCHANGED pipeline

\* graphApi.publishContainer answers
publishContainer(ok, msg) ==
    /\ adapter.pc = "publish"
    /\ adapter' =
         IF ok
         THEN [Sent(adapter, "publish", <<adapter.containerId>>, NewId(adapter))
                 EXCEPT !.publishId = NewId(adapter), !.containers = @ + 1,
                        !.pc = "resolve"]
         ELSE Fail(Sent(adapter, "publish", <<adapter.containerId>>, 0), PublishFailed, msg)
    /\ UNCHANGED pipeline

\* graphApi.getPostInfo answers
getPostInfo(ok, msg) ==
    /\ adapter.pc = "resolve"
    /\ adapter' =
         IF ok
         THEN [Sent(adapter, "resolve", <<adapter.publishId>>, adapter.publishId)
                 EXCEPT !.pc = "done",
                        !.result = [success |-> TRUE, platformPostId |-> adapter.publishId,
                                    error |-> <<NoMessage, NoMessage>>,
                                    errorCode |-> NoMessage]]
         ELSE Fail(Sent(adapter, "resolve", <<adapter.publishId>>, 0), PostInfoFailed, msg)
    /\ UNCHANGED pipeline

\* what the adapter returns when getPostInfo fails after publishContainer has
\* answered: the catch block of publishPost / publishReel makes it a failure
ResolveFailures(postType, mediaAssets) ==
    IF \E result \in publishPost(postType, mediaAssets) : result.success
    THEN {[NullResult EXCEPT !.error = PostInfoFailed, !.published = TRUE]}
    ELSE {}

\* one step of the handler, the adapter failing at any step of its protocol
WorkerStepResolving(w) ==
    \/ WorkerStep(w)
    \/ \E result \in ResolveFailures(worker[w].postType, worker[w].mediaAssets) :
          Publish(w, result)

\* ------------------------------------------------------- specifications
Next ==
    \/ \E p \in Posts : createScheduledPost(p, PlainDto)
    \/ \E p \in Posts, dto \in UpdateDtos : updatePost(p, dto)
    \/ \E p \in Posts, cascade \in BOOLEAN : deletePost(p, cascade)
    \/ \E p \in Posts : retryPost(p)
    \/ \E j \in JobIds : JobDue(j)
    \/ TokenExpires
    \/ \E w \in Workers, j \in JobIds : Dequeue(w, j)
    \/ \E w \in Workers : WorkerStep(w)

Spec == Init /\ [][Next]_vars

\* the pipeline without edits: posts are created, published by the workers
\* and retried on request
NextCore ==
    \/ \E p \in Posts : createScheduledPost(p, PlainDto)
    \/ \E p \in Posts : retryPost(p)
    \/ \E j \in JobIds : JobDue(j)
    \/ TokenExpires
    \/ \E w \in Workers, j \in JobIds : Dequeue(w, j)
    \/ \E w \in Workers : WorkerStep(w)

SpecCore == Init /\ [][NextCore]_vars

\* the workers and the broker's timers keep running: a due job is made
\* waiting, a waiting job is taken by an idle worker, a started handler runs
\* to its end
FairCore ==
    /\ SpecCore
    /\ \A j \in JobIds : WF_vars(JobDue(j))
    /\ \A j \in JobIds : WF_vars(\E w \in Workers : Dequeue(w, j))
    /\ \A w \in Workers : WF_vars(WorkerStep(w))

\* the worker on stored posts: the rows and the delayed jobs are the handler's
\* inputs, a row's platform being any name the column can hold; media can be
\* deleted while the job waits
InitFaults ==
    /\ scheduledPost \in [Posts -> {NullPost} \cup
            {[NullPost EXCEPT !.exists = TRUE, !.platform = pf, !.postType = IMAGE,
                              !.mediaAssets = 1] :
                pf \in Platforms}]
    /\ \A p \in Posts : scheduledPost[p].exists <=> p \in JobIds
    /\ socialAccount = [accessToken |-> 0, expired |-> FALSE]
    /\ jobLog = [p \in Posts |-> <<>>]
    /\ jobs = [j \in JobIds |->
            IF j \in Posts THEN schedulePost([k \in JobIds |-> NullJob], j, CreateDelay)[1]
            ELSE NullJob]
    /\ worker = [w \in Workers |-> IdleWorker]
    /\ edits = 0
    /\ apiError = NoMessage
    /\ adapter = IdleAdapter
    /\ validation = NoValidation
    /\ deleting = {}

NextFaults ==
    \/ \E p \in Posts : deleteMedia(p)
    \/ \E j \in JobIds : JobDue(j)
    \/ TokenExpires
    \/ \E w \in Workers, j \in JobIds : Dequeue(w, j)
    \/ \E w \in Workers : WorkerStep(w)

SpecFaults == InitFaults /\ [][NextFaults]_vars

\* the requests to retry posts, accepted or not, with the workers that make
\* posts FAILED
NextRetry ==
    \/ \E p \in Posts : createScheduledPost(p, PlainDto)
    \/ \E p \in Posts : retryPost(p)
    \/ \E p \in Posts : retryPostRejected(p)
    \/ \E j \in JobIds : JobDue(j)
    \/ TokenExpires
    \/ \E w \in Workers, j \in JobIds : Dequeue(w, j)
    \/ \E w \in Workers : WorkerStep(w)

SpecRetry == Init /\ [][NextRetry]_vars

\* the requests to retry and to delete posts, a deletion served in two steps,
\* with the workers
NextDelete ==
    \/ \E p \in Posts : createScheduledPost(p, PlainDto)
    \/ \E p \in Posts : retryPost(p)
    \/ \E p \in Posts : deletePostCancels(p)
    \/ \E p \in Posts, cascade \in BOOLEAN : deletePostDeletes(p, cascade)
    \/ \E j \in JobIds : JobDue(j)
    \/ TokenExpires
    \/ \E w \in Workers, j \in JobIds : Dequeue(w, j)
    \/ \E w \in Workers : WorkerStep(w)

SpecDelete == Init /\ [][NextDelete]_vars

\* the requests to create posts of every kind, accepted or not, and the
\* timers of their jobs
NextCreate ==
    \/ \E p \in Posts : createScheduledPostAccepted(p)
    \/ \E p \in Posts : createScheduledPostRejected(p)
    \/ \E j \in JobIds : JobDue(j)

SpecCreate == Init /\ [][NextCreate]_vars

\* one call of the adapter, for every post and every answer of the platform
NextAdapter ==
    \/ \E postType \in PostTypes, positions \in PositionLists, credentials \in BOOLEAN :
          publishPostBegins(postType, MediaOf(positions), credentials)
    \/ \E postType \in PostTypes, positions \in PositionLists, credentials \in BOOLEAN :
          publishReelBegins(postType, MediaOf(positions), credentials)
    \/ \E ok \in BOOLEAN, msg \in RemoteMessages : createImageContainer(ok, msg)
    \/ \E ok \in BOOLEAN, msg \in RemoteMessages : createReelContainer(ok, msg)
    \/ \E ok \in BOOLEAN, msg \in RemoteMessages : createCarouselItem(ok, msg)
    \/ \E ok \in BOOLEAN, msg \in RemoteMessages : createCarouselParent(ok, msg)
    \/ \E response \in PollResponses, d \in Latencies : getContainerStatus(response, d)
    \/ \E d \in Latencies : Sleep(d)
    \/ \E ok \in BOOLEAN, msg \in RemoteMessages : publishContainer(ok, msg)
    \/ \E ok \in BOOLEAN, msg \in RemoteMessages : getPostInfo(ok, msg)

SpecAdapter == Init /\ [][NextAdapter]_vars

\* every request the adapter sends is answered, and every timer fires
FairAdapter == SpecAdapter /\ WF_vars(NextAdapter)

\* a single worker and one job per post: posts are created and their jobs
\* run, nothing else
NextSingle ==
    \/ \E p \in Posts : createScheduledPost(p, PlainDto)
    \/ \E j \in JobIds : JobDue(j)
    \/ TokenExpires
    \/ \E j \in JobIds : Dequeue(1, j)
    \/ WorkerStepResolving(1)

SpecSingle == Init /\ [][NextSingle]_vars

\* one call of validateMedia, for every kind of post and every list of media
NextValidate ==
    \E media \in ValidatedLists, postType \in PostTypes : validateMediaCalled(media, postType)

SpecValidate == Init /\ [][NextValidate]_vars

\* ----------------------------------------------------------- observation
Running(w) == worker[w].pc # "idle"

\* the attempts of the jobs of a post that have ended
RECURSIVE SumAttempts(_, _)
SumAttempts(q, js) ==
    IF js = {} THEN 0
    ELSE LET j == CHOOSE k \in js : TRUE
         IN Len(q[j].outcomes) + SumAttempts(q, js \ {j})

AttemptsOf(p) == SumAttempts(jobs, JobsOf(jobs, p))

Ended(j) == jobs[j].state \in {"completed", "failed"}

Kinds(j) == {jobs[j].outcomes[i] : i \in 1..Len(jobs[j].outcomes)}

\* every attempt of the job so far went to the adapter and got a failure result
OnlyAdapterFailures(j) ==
    /\ Len(jobs[j].outcomes) > 0
    /\ jobs[j].publishCalls = Len(jobs[j].outcomes)
    /\ Kinds(j) \subseteq {"thrown", "failed", "error"}

\* every attempt of the job so far failed, by a failure result or a fault
OnlyFailures(j) ==
    /\ Len(jobs[j].outcomes) > 0
    /\ Kinds(j) \subseteq {"thrown", "failed", "error"}

\* the post was created and never reset by retryPost: its first job is its only one
NeverRetried(p) == Cardinality(JobsOf(jobs, p)) = 1

\* the jobs of a post that no worker has taken yet
PendingJobsOf(q, p) == {j \in JobsOf(q, p) : q[j].state \in {"waiting", "delayed"}}

\* updatePost with a new time, its cancelPost not refused: reschedulePost
\* runs to its end
Rescheduled(p) ==
    /\ ~cancelPostThrows(jobs, p)
    /\ \E dto \in UpdateDtos : dto.reschedule /\ updatePost(p, dto)

\* a request whose only write besides the queue is none: deletePost refused
\* or not, and updatePost with a new time and no status
CancelPostCalled(p) ==
    \/ \E cascade \in BOOLEAN : deletePost(p, cascade)
    \/ updatePost(p, [reschedule |-> TRUE, status |-> "unset"])

\* ---------------------------------------------------------------- claims

\* C1: a worker execution that starts on a post whose status is PUBLISHED or
\* CANCELLED changes no field of the post.
C1_TerminalPostUntouched ==
    [][\A w \in Workers :
         (Running(w) /\ worker[w].startStatus \in {PUBLISHED, CANCELLED}
                     /\ worker'[w] # worker[w])
         => scheduledPost'[PostOf(w)] = scheduledPost[PostOf(w)]]_vars

\* C2: an execution that finds the post not PENDING at its status check has
\* called no refreshToken and no publish operation.
C2_SkipTakesNoAction ==
    \A w \in Workers :
        (worker[w].pc = "check"
            /\ scheduledPost[PostOf(w)].exists
            /\ scheduledPost[PostOf(w)].status # PENDING)
        => ~worker[w].refreshed

\* C3: once no attempt is running for a post, its jobLog holds exactly one row
\* per attempt executed for it.
C3_OneRecordPerAttempt ==
    \A p \in Posts :
        (scheduledPost[p].exists /\ \A w \in Workers : Running(w) => PostOf(w) # p)
        => Len(jobLog[p]) = AttemptsOf(p)

\* C4: one attempt writes the post's status and retryCount at most once.
C4_OneWritePerAttempt ==
    \A w \in Workers : worker[w].writes <= 1

\* C5: a job all of whose attempts got a failure result from the adapter ends
\* after exactly 3 publish calls, and no job makes more than 3.
C5_ThreePublishCalls ==
    \A j \in JobIds :
        /\ jobs[j].publishCalls <= JobAttempts
        /\ (Ended(j) /\ OnlyAdapterFailures(j) /\ NeverRetried(jobs[j].postId))
           => jobs[j].publishCalls = JobAttempts

\* C6: after two attempts that both got a failure result from the adapter the
\* post is PENDING with retryCount 2, ready for the third attempt.
C6_PendingAfterTwoFailures ==
    \A j \in JobIds :
        (jobs[j].state # "active" /\ OnlyAdapterFailures(j)
            /\ Len(jobs[j].outcomes) = 2 /\ NeverRetried(jobs[j].postId))
        => /\ scheduledPost[jobs[j].postId].status = PENDING
           /\ scheduledPost[jobs[j].postId].retryCount = 2
           /\ Len(jobLog[jobs[j].postId]) = 2

\* C7: when every attempt of a post's job has failed and the job has ended,
\* the post is FAILED with retryCount 3 and the message of the last failure;
\* and once the post is FAILED no job waits or is delayed for it.
C7_AllFailuresEndFailed ==
    /\ \A j \in JobIds :
        (Ended(j) /\ OnlyFailures(j) /\ NeverRetried(jobs[j].postId))
        => /\ scheduledPost[jobs[j].postId].status = FAILED
           /\ scheduledPost[jobs[j].postId].retryCount = MaxRetries
           /\ scheduledPost[jobs[j].postId].errorMessage = jobs[j].lastError
    /\ \A p \in Posts :
        (scheduledPost[p].exists /\ scheduledPost[p].status = FAILED /\ NeverRetried(p))
        => \A j \in LiveJobsOf(jobs, p) : jobs[j].state = "active"

C7_Witness ==
    \E j \in JobIds :
        /\ jobs[j].state = "completed"
        /\ jobs[j].outcomes = <<"thrown", "error">>
        /\ jobs[j].publishCalls = 1
        /\ jobs[j].lastError \in AdapterErrors
        /\ scheduledPost[jobs[j].postId].status = FAILED

\* C8: no step but retryPost's reset lowers a post's retryCount, and the
\* retryCount of a post that is not FAILED never exceeds 3.
C8_RetryCountMonotonic ==
    [][\A p \in Posts :
         /\ ~retryPost(p) => scheduledPost'[p].retryCount >= scheduledPost[p].retryCount
         /\ scheduledPost'[p].status # FAILED => scheduledPost'[p].retryCount <= MaxRetries]_vars

C8_Witness ==
    \E p \in Posts :
        /\ scheduledPost[p].status = FAILED
        /\ scheduledPost[p].retryCount = MaxRetries
        /\ Len(jobLog[p]) = 3

\* C9: a PENDING post has retryCount < 3 and a FAILED post has retryCount >= 3.
C9_StatusMatchesRetryCount ==
    \A p \in Posts :
        scheduledPost[p].exists =>
            /\ scheduledPost[p].status = PENDING => scheduledPost[p].retryCount < MaxRetries
            /\ scheduledPost[p].status = FAILED => scheduledPost[p].retryCount >= MaxRetries

C9_Witness ==
    \E p \in Posts :
        /\ scheduledPost[p].exists
        /\ scheduledPost[p].status = PENDING
        /\ scheduledPost[p].retryCount = MaxRetries - 1
        /\ \E j \in LiveJobsOf(jobs, p) : jobs[j].state = "delayed" /\ jobs[j].attemptsMade > 0

\* C10: a PENDING post always has a job the broker still holds, and it
\* eventually becomes PUBLISHED or FAILED.
C10_EventuallyPublishedOrFailed ==
    \A p \in Posts :
        /\ []((scheduledPost[p].exists /\ scheduledPost[p].status = PENDING)
                => LiveJobsOf(jobs, p) # {})
        /\ (scheduledPost[p].exists /\ scheduledPost[p].status = PENDING)
                ~> (scheduledPost[p].status \in {PUBLISHED, FAILED})

C10_Witness ==
    \E p \in Posts :
        /\ scheduledPost[p].status = PUBLISHED
        /\ scheduledPost[p].retryCount > 0
        /\ LiveJobsOf(jobs, p) = {}

\* C11: when the adapter reports success on the first attempt of a PENDING
\* post with retryCount 0, the post ends PUBLISHED with the adapter's id as
\* platformPostId, publishedAt set, errorMessage cleared and retryCount 0, and
\* its jobLog holds exactly one row, with status 'published'.
C11_FirstAttemptSuccess ==
    \A j \in JobIds :
        (Ended(j) /\ jobs[j].outcomes = <<"published">> /\ NeverRetried(jobs[j].postId))
        => LET post == scheduledPost[jobs[j].postId] IN
           /\ post.status = PUBLISHED
           /\ \E r \in PublishResults : r.success /\ post.platformPostId = r.platformPostId
           /\ post.publishedAt
           /\ post.errorMessage = NoMessage
           /\ post.retryCount = 0
           /\ Len(jobLog[jobs[j].postId]) = 1
           /\ jobLog[jobs[j].postId][1].status = "published"

C11_Witness ==
    \E j \in JobIds, w \in Workers :
        /\ jobs[j].state = "completed"
        /\ jobs[j].outcomes = <<"published">>
        /\ jobs[j].publishCalls = 1
        /\ scheduledPost[jobs[j].postId].status = PUBLISHED
        /\ worker[w].pc = "idle"

C13_ConfigFaultTerminal ==
    \A j \in JobIds :
        (Len(jobs[j].outcomes) >= 1 /\ jobs[j].lastError = MediaCountFault)
        => /\ scheduledPost[jobs[j].postId].status = FAILED
           /\ Ended(j)

\* C14: in an attempt on a PENDING post whose credential refresh throws, the
\* adapter's publish operation is not called, the stored credential is not
\* written, and the post is written once: retryCount one higher, status
\* PENDING if the new retryCount is below 3 and FAILED otherwise.
C14_RefreshFailureRetryable ==
    [][\A w \in Workers :
         (worker'[w] # worker[w] /\ worker[w].startStatus = PENDING
             /\ (worker[w].error = RefreshFailed \/ worker'[w].error = RefreshFailed))
         => LET p == PostOf(w)
                j == worker[w].job IN
            /\ socialAccount' = socialAccount
            /\ worker[w].result = NullResult
            /\ jobs'[j].publishCalls = jobs[j].publishCalls
            /\ \/ scheduledPost'[p] = scheduledPost[p]
               \/ /\ scheduledPost'[p].retryCount = scheduledPost[p].retryCount + 1
                  /\ scheduledPost'[p].status =
                        IF scheduledPost'[p].retryCount < MaxRetries THEN PENDING ELSE FAILED
            /\ worker'[w].pc = "idle" => worker[w].writes = 1]_vars

C14_Witness ==
    \E j \in JobIds :
        /\ jobs[j].outcomes = <<"thrown">>
        /\ jobs[j].lastError = RefreshFailed
        /\ jobs[j].publishCalls = 0
        /\ scheduledPost[jobs[j].postId].status = PENDING
        /\ scheduledPost[jobs[j].postId].retryCount = 1
        /\ socialAccount.expired

\* C15: preparePostForPublishing refreshes if and only if the stored expiry
\* has passed; a successful refresh stores the new token with its new expiry
\* and hands that token on; with the expiry in the future the account is not
\* written and the stored token is handed on; the token handed on reaches the
\* adapter unchanged.
C15_RefreshIffExpired ==
    [][\A w \in Workers :
         worker'[w] # worker[w] =>
            /\ (worker[w].pc = "prepare" /\ scheduledPost[PostOf(w)].exists) =>
                  /\ worker'[w].pc = "refresh" <=> socialAccount.expired
                  /\ ~socialAccount.expired =>
                        /\ worker'[w].pc = "check"
                        /\ worker'[w].accessToken = socialAccount.accessToken
                  /\ socialAccount' = socialAccount
            /\ (worker[w].pc = "refresh" /\ worker'[w].pc = "check") =>
                  /\ socialAccount'.accessToken # socialAccount.accessToken
                  /\ ~socialAccount'.expired
                  /\ worker'[w].accessToken = socialAccount'.accessToken
            /\ worker[w].pc \notin {"prepare", "refresh"} =>
                  /\ socialAccount' = socialAccount
                  /\ worker'[w].pc # "idle" => worker'[w].accessToken = worker[w].accessToken]_vars

C15_Witness ==
    \E w \in Workers :
        /\ worker[w].pc = "publish"
        /\ worker[w].refreshed
        /\ worker[w].accessToken = socialAccount.accessToken
        /\ worker[w].accessToken > 0
        /\ ~socialAccount.expired

\* C16: while no attempt of a post's job is running, every failure row of its
\* jobLog has willRetry true if and only if the attempt that wrote it was
\* followed by another attempt, or left the post PENDING with the job waiting
\* for its next attempt.
C16_WillRetryCorrect ==
    \A j \in JobIds :
        (jobs[j].state \in {"waiting", "delayed", "completed", "failed"}
            /\ NeverRetried(jobs[j].postId))
        => LET p == jobs[j].postId IN
           \A i \in 1..Len(jobLog[p]) :
               jobLog[p][i].status \in {"failed", "error"} =>
                   (jobLog[p][i].willRetry <=>
                       \/ jobLog[p][i].attempt < Len(jobs[j].outcomes)
                       \/ /\ jobLog[p][i].attempt = Len(jobs[j].outcomes)
                          /\ scheduledPost[p].status = PENDING
                          /\ jobs[j].state \in {"waiting", "delayed"})

C19_CancelFrame ==
    [][\A p \in Posts :
         CancelPostCalled(p) =>
            /\ \A k \in PendingJobsOf(jobs, p) : jobs'[k].state = "removed"
            /\ \A k \in JobIds : jobs[k].state = "active" => jobs'[k] = jobs[k]
            /\ worker' = worker
            /\ \A k \in JobIds :
                 (jobs[k].state # "none" /\ jobs[k].postId # p) => jobs'[k] = jobs[k]
            /\ \A q \in Posts :
                 scheduledPost'[q].exists => scheduledPost'[q].status = scheduledPost[q].status]_vars

C19_Witness ==
    \E j, k \in JobIds, w \in Workers :
        /\ jobs[j].state = "removed"
        /\ jobs[j].attemptsMade > 0
        /\ jobs[k].postId # jobs[j].postId
        /\ jobs[k].state = "active"
        /\ worker[w].job = k
        /\ worker[w].pc = "publish"

\* C20: once deletePost has run to its end for a post whose jobs had not
\* fired, every job of the post is removed and stays as it is, so that no
\* attempt runs for it, and the post's jobLog is and stays empty.
C20_CancelledNeverRuns ==
    [][\A p \in Posts :
         (~scheduledPost[p].exists /\ JobsOf(jobs, p) # {}
             /\ \A j \in JobsOf(jobs, p) : jobs[j].outcomes = <<>>)
         => /\ \A j \in JobsOf(jobs, p) : jobs[j].state = "removed" /\ jobs'[j] = jobs[j]
            /\ \A w \in Workers : Running(w) => PostOf(w) # p
            /\ jobLog[p] = <<>>
            /\ jobLog'[p] = <<>>]_vars

C20_Witness ==
    \E p \in Posts, j \in JobIds, w \in Workers :
        /\ ~scheduledPost[p].exists
        /\ jobs[j].postId = p
        /\ jobs[j].state = "removed"
        /\ jobs[j].outcomes = <<>>
        /\ worker[w].pc = "logSuccess"

\* C21: no two attempts on the same post are at the same time between the
\* status check they passed and their status write.
C21_OneAttemptPerPost ==
    \A w1, w2 \in Workers :
        (w1 # w2 /\ worker[w1].pc \in {"publish", "update"}
                 /\ worker[w2].pc \in {"publish", "update"})
        => PostOf(w1) # PostOf(w2)

\* the status of a row that stays in the table changes in this step
StatusChanges(p) ==
    /\ scheduledPost[p].exists
    /\ scheduledPost'[p].exists
    /\ scheduledPost'[p].status # scheduledPost[p].status

\* a handler invocation on the post makes this step
WorkerWrites(p) ==
    \E w \in Workers :
        /\ worker[w].pc \in {"update", "catchUpdate"}
        /\ worker'[w] # worker[w]
        /\ PostOf(w) = p

C23_NoJobForTerminalPost ==
    [][\A j \in JobIds :
         (\/ jobs[j].state = "none" /\ jobs'[j].state # "none"
          \/ jobs[j].state = "active" /\ jobs'[j].state = "delayed")
         => LET p == jobs'[j].postId IN
            /\ scheduledPost[p].exists => scheduledPost[p].status \notin {CANCELLED, PUBLISHED}
            /\ scheduledPost'[p].exists => scheduledPost'[p].status \notin {CANCELLED, PUBLISHED}]_vars

\* C24: retryPost on a FAILED post sets PENDING, retryCount 0 and no error
\* message and adds exactly one job, waiting with no delay; a post that is
\* not FAILED is never reset, and the request answered 'Failed post not
\* found' changes no row and no job.
C24_RetryResetsOrRejects ==
    [][\A p \in Posts :
         /\ retryPost(p) =>
              /\ scheduledPost[p].exists /\ scheduledPost[p].status = FAILED
              /\ scheduledPost' = [scheduledPost EXCEPT ![p].status = PENDING,
                                                         ![p].retryCount = 0,
                                                         ![p].errorMessage = NoMessage]
              /\ \E j \in JobIds :
                    /\ jobs[j].state = "none"
                    /\ jobs'[j].state = "waiting" /\ jobs'[j].postId = p
                    /\ \A k \in JobIds \ {j} : jobs'[k] = jobs[k]
         /\ retryPostRejected(p) =>
              /\ ~(scheduledPost[p].exists /\ scheduledPost[p].status = FAILED)
              /\ apiError' = FailedPostNotFound
              /\ UNCHANGED <<scheduledPost, jobs, jobLog>>
         /\ (scheduledPost[p].exists /\ scheduledPost[p].status # FAILED) =>
              /\ scheduledPost'[p].retryCount >= scheduledPost[p].retryCount
              /\ Cardinality(JobsOf(jobs', p)) = Cardinality(JobsOf(jobs, p))]_vars

C24_Witness ==
    \E p \in Posts, j \in JobIds :
        /\ apiError = FailedPostNotFound
        /\ scheduledPost[p].status = PENDING
        /\ scheduledPost[p].retryCount = 0
        /\ jobs[j].postId = p /\ jobs[j].state = "waiting" /\ jobs[j].delay = 0
        /\ Cardinality(JobsOf(jobs, p)) = 2

\* the requests that pass every check of createScheduledPost with warnings
WarnedDtos ==
    {dto \in CreateDtos :
        /\ dto.accountFound /\ dto.assetsFound /\ dto.future
        /\ validateMedia(dto.media, dto.postType).valid
        /\ validateMedia(dto.media, dto.postType).warnings # <<>>}

\* the requests whose media has errors or whose time is not in the future
BlockedDtos ==
    {dto \in CreateDtos :
        ~validateMedia(dto.media, dto.postType).valid \/ ~dto.future}

\* C25: in no state can a request whose media validation reports an error or
\* whose time is not in the future create a row or add a job; a request that
\* passes every check with warnings only can, whenever the id is free.
C25_RejectedCreateWritesNothing ==
    \A p \in Posts :
        /\ \A dto \in BlockedDtos : ~ENABLED createScheduledPost(p, dto)
        /\ (~scheduledPost[p].exists /\ JobsOf(jobs, p) = {} /\ HasFreeJob(jobs))
           => \A dto \in WarnedDtos : ENABLED createScheduledPost(p, dto)

C25_Witness ==
    \E p, q \in Posts :
        /\ apiError = ValidationFailed
        /\ ~scheduledPost[p].exists /\ JobsOf(jobs, p) = {}
        /\ scheduledPost[q].exists /\ scheduledPost[q].postType = CAROUSEL
        /\ WarnedDtos # {}

\* the requests of one kind among those the adapter has sent
CallsOf(ops) == SelectSeq(adapter.calls, LAMBDA c : c.op \in ops)

CreateOps == {"image", "reel", "item", "carousel"}

\* the most polls a wait with the given timeout can make: one when it begins
\* and one after each pause that ends before the timeout
MaxPolls(timeout) == (timeout + pollInterval - 1) \div pollInterval

C27_ErrorStopsPolling ==
    "ERROR" \in adapter.observed =>
        /\ adapter.pc = "done"
        /\ adapter.calls[Len(adapter.calls)].op = "poll"
        /\ CallsOf({"publish", "resolve"}) = <<>>
        /\ ~adapter.result.success
        /\ adapter.result.error[1] = ProcessingFailed
        /\ adapter.response.status # NoMessage =>
             adapter.result.error[2] = adapter.response.status

C27_Witness ==
    /\ "ERROR" \in adapter.observed
    /\ adapter.polls > 1
    /\ adapter.polls < MaxPolls(adapter.timeout)
    /\ adapter.result.error = <<ProcessingFailed, "Media could not be fetched">>

\* the step of the protocol a request belongs to
Rank(op) ==
    CASE op \in CreateOps -> 1
      [] op = "poll" -> 2
      [] op = "publish" -> 3
      [] op = "resolve" -> 4

\* C28: the requests of a call are sent in the order create, poll, publish,
\* resolve; the publish request follows a poll of the same container that
\* answered FINISHED, and that container is the one created; the resolve
\* request follows a publish request that answered an identifier, and asks
\* for it; a success result is returned only after all four have succeeded.
C28_CreatePollPublishResolve ==
    LET c == adapter.calls
    IN  /\ \A i, j \in 1..Len(c) : i < j => Rank(c[i].op) <= Rank(c[j].op)
        /\ Len(CallsOf({"publish"})) <= 1 /\ Len(CallsOf({"resolve"})) <= 1
        /\ \A j \in 1..Len(c) :
              c[j].op = "publish" =>
                 /\ j > 1 /\ c[j - 1].op = "poll" /\ c[j - 1].id = 1
                 /\ c[j - 1].arg = c[j].arg
                 /\ \E i \in 1..(j - 1) :
                       /\ c[i].op \in {"image", "reel", "carousel"}
                       /\ c[i].id # 0 /\ <<c[i].id>> = c[j].arg
        /\ \A j \in 1..Len(c) :
              c[j].op = "resolve" =>
                 /\ j > 1 /\ c[j - 1].op = "publish" /\ c[j - 1].id # 0
                 /\ c[j].arg = <<c[j - 1].id>>
        /\ adapter.result.success =>
              /\ adapter.pc = "done"
              /\ \E i \in 1..Len(c) : c[i].op \in {"image", "reel", "carousel"} /\ c[i].id # 0
              /\ \E i \in 1..Len(c) : c[i].op = "poll" /\ c[i].id = 1
              /\ \E i \in 1..Len(c) : c[i].op = "publish" /\ c[i].id # 0
              /\ c[Len(c)].op = "resolve" /\ c[Len(c)].id # 0
              /\ adapter.result.platformPostId = c[Len(c)].id

C28_Witness ==
    /\ adapter.result.success
    /\ adapter.postType = CAROUSEL
    /\ Len(CallsOf({"item"})) = 2
    /\ Len(CallsOf({"poll"})) = 3

\* C29: a call made without the access token or the account id ends by
\* throwing.
C29_MissingCredentialThrows ==
    (adapter.pc = "done" /\ ~adapter.credentials) => adapter.threw

\* the position of the asset with the given fileUrl
PositionOf(url) ==
    LET i == CHOOSE k \in 1..Len(adapter.mediaAssets) : adapter.mediaAssets[k].fileUrl = url
    IN  adapter.mediaAssets[i].position

\* C30: the item requests of a carousel name each asset at most once, in
\* ascending order of position (assets of equal position in the order of the
\* post), and the carousel request is sent after an item request for every
\* asset and lists the identifiers they answered, in the order they were
\* sent.
C30_CarouselInPositionOrder ==
    LET items == CallsOf({"item"})
    IN  /\ \A i, j \in 1..Len(items) :
              i < j =>
                 \/ PositionOf(items[i].arg[1]) < PositionOf(items[j].arg[1])
                 \/ /\ PositionOf(items[i].arg[1]) = PositionOf(items[j].arg[1])
                    /\ items[i].arg[1] < items[j].arg[1]
        /\ \A k \in 1..Len(adapter.calls) :
              adapter.calls[k].op = "carousel" =>
                 /\ Len(items) = Len(adapter.mediaAssets)
                 /\ \A i \in 1..Len(items) : items[i].id # 0
                 /\ adapter.calls[k].arg = [i \in 1..Len(items) |-> items[i].id]

\* the assets with positions 2, 0, 1 were submitted as positions 0, 1, 2
C30_Witness ==
    /\ CallsOf({"carousel"}) # <<>>
    /\ [i \in 1..Len(CallsOf({"item"})) |-> CallsOf({"item"})[i].arg[1]] = <<2, 3, 1>>
    /\ [i \in 1..Len(adapter.mediaAssets) |-> adapter.mediaAssets[i].position] = <<0, 1, 2>>

\* the texts of the errors of a validation, without the item numbers
ErrorTexts(result) == [i \in 1..Len(result.errors) |-> result.errors[i][1]]

\* C31: a single-image post with two assets is invalid with exactly one
\* error, 'Image post must have exactly 1 image'.
C31_TwoAssetsOneError ==
    (validation.postType = IMAGE /\ Len(validation.media) = 2) =>
        /\ ~validation.result.valid
        /\ ErrorTexts(validation.result) = <<"Image post must have exactly 1 image">>

\* the same media with every dimension replaced by the one given
WithDimensions(media, width, height) ==
    [i \in 1..Len(media) |-> [media[i] EXCEPT !.width = width, !.height = height]]

\* C32: a single-image post is valid exactly when it has one asset of an
\* image mime type and of at most 8 MiB; its dimensions do not change valid,
\* and a width or a height outside 320..1440 adds a warning.
C32_ImageValidIff ==
    validation.postType = IMAGE =>
        LET media == validation.media
            result == validation.result
        IN  /\ result.valid <=>
                  /\ Len(media) = 1
                  /\ media[1].fileType[1] = "image"
                  /\ media[1].fileSize <= 8 * 1024 * 1024
            /\ \A w \in Widths, h \in Heights :
                  validateMedia(WithDimensions(media, w, h), IMAGE).valid = result.valid
            /\ Len(media) > 0 =>
                  Len(result.warnings) =
                      (IF media[1].width # 0 /\ (media[1].width < 320 \/ media[1].width > 1440)
                       THEN 1 ELSE 0)
                    + (IF media[1].height # 0 /\ (media[1].height < 320 \/ media[1].height > 1440)
                       THEN 1 ELSE 0)

C32_Witness ==
    /\ validation.postType = IMAGE
    /\ validation.result.valid
    /\ Len(validation.result.warnings) = 2
    /\ validation.media[1].fileSize = 8 * 1024 * 1024

\* the errors of a validation that name the given item
ErrorsOfItem(result, index) ==
    Len(SelectSeq(result.errors, LAMBDA e : e[2] = index))

\* C33: a carousel post is valid exactly when it has 2 to 10 assets, each of
\* an image mime type and of at most 8 MiB; an item has one error for a mime
\* type that is not an image and one for a size above 8 MiB.
C33_CarouselValidIff ==
    validation.postType = CAROUSEL =>
        LET media == validation.media
            result == validation.result
        IN  /\ result.valid <=>
                  /\ Len(media) >= 2 /\ Len(media) <= 10
                  /\ \A i \in 1..Len(media) :
                        /\ media[i].fileType[1] = "image"
                        /\ media[i].fileSize <= 8 * 1024 * 1024
            /\ \A i \in 1..Len(media) :
                  ErrorsOfItem(result, i) =
                      (IF media[i].fileType[1] # "image" THEN 1 ELSE 0)
                    + (IF media[i].fileSize > 8 * 1024 * 1024 THEN 1 ELSE 0)
            /\ ErrorsOfItem(result, 0) = IF Len(media) < 2 \/ Len(media) > 10 THEN 1 ELSE 0

C33_Witness ==
    /\ validation.postType = CAROUSEL
    /\ Len(validation.media) = 10
    /\ ErrorsOfItem(validation.result, 10) = 2
    /\ ErrorsOfItem(validation.result, 3) = 1
    /\ Len(validation.result.errors) = 3

\* C34: a reel is valid exactly when it has one asset of a video mime type
\* and of at most 100 MiB; its dimensions do not change valid, and a width
\* other than 1080 or a height other than 1920 adds a warning.
C34_ReelValidIff ==
    validation.postType = REEL =>
        LET media == validation.media
            result == validation.result
        IN  /\ result.valid <=>
                  /\ Len(media) = 1
                  /\ media[1].fileType[1] = "video"
                  /\ media[1].fileSize <= 100 * 1024 * 1024
            /\ \A w \in Widths, h \in Heights :
                  validateMedia(WithDimensions(media, w, h), REEL).valid = result.valid
            /\ Len(media) > 0 =>
                  Len(result.warnings) =
                      (IF media[1].width \notin {0, 1080} THEN 1 ELSE 0)
                    + (IF media[1].height \notin {0, 1920} THEN 1 ELSE 0)

C34_Witness ==
    /\ validation.postType = REEL
    /\ validation.result.valid
    /\ validation.media[1].fileSize = 100 * 1024 * 1024
    /\ Len(validation.result.warnings) = 2

\* C35: when a handler invocation that did not skip ends, it has thrown to
\* Bull exactly when the last status it wrote to the post is PENDING; a
\* throw finds the job with an attempt left, so the job is delayed for a
\* re-run, and a return completes the job.
C35_RethrowIffPending ==
    [][\A w \in Workers :
         (Running(w) /\ ~Running(w)') =>
            LET j == worker[w].job
                kind == jobs'[j].outcomes[Len(jobs'[j].outcomes)]
                pending == worker[w].wrote = PENDING
            IN  kind # "skipped" =>
                   /\ kind = "thrown" <=> pending
                   /\ pending => jobs'[j].state = "delayed"
                   /\ ~pending => jobs'[j].state = "completed"]_vars

\* an adapter failure and then a thrown fault: the first attempt was rethrown
\* with the post PENDING, the second returned with the post FAILED
C35_Witness ==
    \E j \in JobIds :
        /\ jobs[j].outcomes = <<"thrown", "error">>
        /\ jobs[j].publishCalls = 1
        /\ jobs[j].state = "completed"
        /\ scheduledPost[jobs[j].postId].status = FAILED

\* C36: over all the attempts of a job, media_publish answers a remote post
\* id at most once.
C36_PublishedAtMostOnce ==
    \A j \in JobIds : jobs[j].published <= 1

\* C37: an attempt that has passed its status check writes its result, in
\* the success or failure branch or in the catch block, only to a post that
\* is PENDING when it writes.
C37_ResultWriteKeepsNewStatus ==
    [][\A w \in Workers :
         (/\ worker[w].pc \in {"update", "catchUpdate"}
          /\ worker[w].dbRetry >= 0
          /\ worker'[w].writes = worker[w].writes + 1)
         => scheduledPost[PostOf(w)].status = PENDING]_vars

\* C38: no post has more than one job waiting, delayed or active.
C38_OneLiveJobPerPost ==
    \A p \in Posts : Cardinality(LiveJobsOf(jobs, p)) <= 1

\* C39: a PUBLISHED post has a platformPostId, a publishedAt and no
\* errorMessage; a post of any other status has no platformPostId and no
\* publishedAt.
C39_PublishedFieldsAgree ==
    \A p \in Posts :
        scheduledPost[p].exists =>
            IF scheduledPost[p].status = PUBLISHED
            THEN /\ scheduledPost[p].platformPostId # 0
                 /\ scheduledPost[p].publishedAt
                 /\ scheduledPost[p].errorMessage = NoMessage
            ELSE /\ scheduledPost[p].platformPostId = 0
                 /\ ~scheduledPost[p].publishedAt

\* C40: an attempt of a job whose post is gone when the job fires calls no
\* adapter, writes no post and no jobLog row, and ends by returning a failure:
\* the job is completed and no attempt is counted, so it is not run again.
C40_DeletedPostAttempt ==
    [][\A w \in Workers :
          (Running(w) /\ worker[w].startStatus = "none" /\ worker'[w] # worker[w]) =>
              LET j == worker[w].job
                  p == jobs[j].postId
              IN /\ scheduledPost'[p] = scheduledPost[p]
                 /\ jobLog'[p] = jobLog[p]
                 /\ jobs'[j].publishCalls = jobs[j].publishCalls
                 /\ worker'[w].writes = 0
                 /\ ~Running(w)' =>
                        /\ jobs'[j].state = "completed"
                        /\ jobs'[j].attemptsMade = jobs[j].attemptsMade
                        /\ jobs'[j].outcomes = Append(jobs[j].outcomes, "error")
                        /\ jobs'[j].lastError = PostNotFound]_vars

\* a job whose post was deleted has run and returned
C40_Witness ==
    \E j \in JobIds :
        /\ jobs[j].state = "completed"
        /\ jobs[j].outcomes = <<"error">>
        /\ jobs[j].lastError = PostNotFound
        /\ jobs[j].publishCalls = 0
        /\ ~scheduledPost[jobs[j].postId].exists
        /\ jobLog[jobs[j].postId] = <<>>

====
